---- MODULE Spec2Model ----
(***************************************************************************)
(* Account ledger of landreussi/txns: Account::from_transactions groups    *)
(* the input records by client, and process_client_transactions builds the *)
(* per-id signed amount map, checks the funds and replays the Dispute /    *)
(* Resolve / Chargeback records of one client.                             *)
(*                                                                         *)
(* Decimal amounts are integers (a count of the smallest unit); Decimal    *)
(* arithmetic is exact, so sums and differences are the integer ones.      *)
(* HashMap / HashSet iteration order is a nondeterministic choice.         *)
(***************************************************************************)
EXTENDS Integers, Sequences, FiniteSets

\* ---- bounds of the model ----
MaxClient == 2
MaxId == 2
MaxAmount == 2
\* longest input that mixes clients
MaxLen == 3
\* longest input whose records all belong to one client
MaxLenOne == 4

Clients == 1..MaxClient
TxIds == 1..MaxId
Amounts == 1..MaxAmount

\* ---- domain/transaction ----
MonetaryKinds == {"Deposit", "Withdrawal"}
ReferenceKinds == {"Dispute", "Resolve", "Chargeback"}

\* A Transaction; the kinds without an amount carry amount 0, so that
\* equality is structural on (transaction_id, client, kind, amount).
Transaction ==
    [transaction_id : TxIds, client : Clients, kind : MonetaryKinds, amount : Amounts]
    \cup
    [transaction_id : TxIds, client : Clients, kind : ReferenceKinds, amount : {0}]

IsMonetary(tx) == tx.kind \in MonetaryKinds

\* ---- inputs ----
Inputs ==
    UNION {[1..n -> Transaction] : n \in 0..MaxLen}
    \cup
    UNION {[1..n -> {tx \in Transaction : tx.client = 1}] : n \in (MaxLen + 1)..MaxLenOne}

VARIABLES
    txns,          \* the argument of from_transactions, in input order
    pc,            \* position in from_transactions / process_client_transactions
    client_txns,   \* into_group_map_by: client -> Vec of its records
    pending,       \* clients the HashMap iterator has not yielded yet
    client,        \* argument of process_client_transactions (0: none)
    txset,         \* argument txns: HashSet<Transaction> of that call
    tx_amounts,    \* per-id signed amount map
    total,
    available,
    held,
    locked,
    rest,          \* records the fold has not consumed yet
    hist,          \* accumulators of the fold: initial, then after each record
    accounts,      \* Ok values collected so far
    result         \* return value of from_transactions

vars == <<txns, pc, client_txns, pending, client, txset, tx_amounts, total,
          available, held, locked, rest, hist, accounts, result>>

\* ---- helpers ----
Range(s) == {s[i] : i \in DOMAIN s}

EmptyMap == [x \in {} |-> 0]

RECURSIVE SumValues(_)
\* tx_amounts.values().sum()
SumValues(m) ==
    IF DOMAIN m = {} THEN 0
    ELSE LET k == CHOOSE x \in DOMAIN m : TRUE
         IN m[k] + SumValues([x \in DOMAIN m \ {k} |-> m[x]])

\* |tx| tx.client, the key of into_group_map_by
GroupKeyByTx(tx) == tx.transaction_id
GroupKey(tx) == tx.client

\* the filter_map closure: Deposit -> +amount, Withdrawal -> -amount
SignedAmountAbs(tx) == tx.amount
SignedAmount(tx) == IF tx.kind = "Deposit" THEN tx.amount ELSE 0 - tx.amount

RECURSIVE SumSigned(_)
SumSigned(set) ==
    IF set = {} THEN 0
    ELSE LET x == CHOOSE y \in set : TRUE
         IN SignedAmount(x) + SumSigned(set \ {x})

\* a per-id map that adds up the records sharing an id
TxAmountMapsSummed(set) ==
    LET mon == {tx \in set : IsMonetary(tx)}
        ids == {tx.transaction_id : tx \in mon}
    IN {[id \in ids |-> SumSigned({tx \in mon : tx.transaction_id = id})]}

\* the per-id map (below) with the Withdrawal arm left out
TxAmountMapsDepositsOnly(set) ==
    LET mon == {tx \in set : tx.kind = "Deposit"}
        ids == {tx.transaction_id : tx \in mon}
        vals == {SignedAmount(tx) : tx \in mon}
    IN {m \in [ids -> vals] :
          \A id \in ids : \E tx \in mon : tx.transaction_id = id /\ m[id] = SignedAmount(tx)}

\* collect() into a HashMap: a later insert of the same id replaces the
\* earlier one, and the set is iterated in an arbitrary order, so each id keeps
\* the signed amount of any one of the monetary records carrying it.
TxAmountMaps(set) ==
    LET mon == {tx \in set : IsMonetary(tx)}
        ids == {tx.transaction_id : tx \in mon}
        vals == {SignedAmount(tx) : tx \in mon}
    IN {m \in [ids -> vals] :
          \A id \in ids : \E tx \in mon : tx.transaction_id = id /\ m[id] = SignedAmount(tx)}

\* total < Decimal::ZERO
InsufficientFundsOrZero(t) == t <= 0
InsufficientFunds(t) == t < 0

\* the filter before the fold: every kind but Deposit and Withdrawal
IsReplayedNoChargeback(tx) == tx.kind \in {"Dispute", "Resolve"}
IsReplayed(tx) == ~(tx.kind \in {"Deposit", "Withdrawal"})

\* tx_amounts.get(&tx.transaction_id).unwrap_or(&Decimal::ZERO)
AmountOfDefaultOne(m, id) == IF id \in DOMAIN m THEN m[id] ELSE 1
AmountOf(m, id) == IF id \in DOMAIN m THEN m[id] ELSE 0

\* (total, Decimal::ZERO, false), the initial accumulator of the fold
InitialAccumulatorEmpty(t) == [avail |-> 0, held |-> 0, locked |-> FALSE, total |-> t]
InitialAccumulator(t) == [avail |-> t, held |-> 0, locked |-> FALSE, total |-> t]

\* the arms of the fold closure; acc = [avail, held, locked, total]
DisputeIfFunds(acc, amount) ==
    IF amount < 0
    THEN [avail |-> acc.avail - amount, held |-> acc.held - amount,
          locked |-> acc.locked, total |-> acc.total - amount]
    ELSE IF acc.avail >= amount
    THEN [avail |-> acc.avail - amount, held |-> acc.held + amount,
          locked |-> acc.locked, total |-> acc.total]
    ELSE acc
DisputeDoubled(acc, amount) ==
    IF amount < 0
    THEN [avail |-> acc.avail - 2 * amount, held |-> acc.held - 2 * amount,
          locked |-> acc.locked, total |-> acc.total - 2 * amount]
    ELSE [avail |-> acc.avail - 2 * amount, held |-> acc.held + 2 * amount,
          locked |-> acc.locked, total |-> acc.total]
DisputeKeepsAvailable(acc, amount) ==
    IF amount < 0
    THEN [avail |-> acc.avail - amount, held |-> acc.held - amount,
          locked |-> acc.locked, total |-> acc.total - amount]
    ELSE [avail |-> acc.avail, held |-> acc.held + amount,
          locked |-> acc.locked, total |-> acc.total]
Dispute(acc, amount) ==
    IF amount < 0
    THEN [avail |-> acc.avail - amount, held |-> acc.held - amount,
          locked |-> acc.locked, total |-> acc.total - amount]
    ELSE [avail |-> acc.avail - amount, held |-> acc.held + amount,
          locked |-> acc.locked, total |-> acc.total]

ResolveGuarded(acc, amount) ==
    IF amount < 0
    THEN [avail |-> acc.avail, held |-> acc.held + amount,
          locked |-> acc.locked, total |-> acc.total]
    ELSE IF acc.held >= amount
    THEN [avail |-> acc.avail + amount, held |-> acc.held - amount,
          locked |-> acc.locked, total |-> acc.total]
    ELSE acc
ResolveRestoresAvailable(acc, amount) ==
    IF amount < 0
    THEN [avail |-> acc.avail + amount, held |-> acc.held + amount,
          locked |-> acc.locked, total |-> acc.total]
    ELSE [avail |-> acc.avail + amount, held |-> acc.held - amount,
          locked |-> acc.locked, total |-> acc.total]
Resolve(acc, amount) ==
    IF amount < 0
    THEN [avail |-> acc.avail, held |-> acc.held + amount,
          locked |-> acc.locked, total |-> acc.total]
    ELSE [avail |-> acc.avail + amount, held |-> acc.held - amount,
          locked |-> acc.locked, total |-> acc.total]

ChargebackIfKnown(acc, amount) ==
    [avail |-> acc.avail, held |-> acc.held, locked |-> acc.locked \/ amount # 0,
     total |-> acc.total]
Chargeback(acc, amount) ==
    [avail |-> acc.avail, held |-> acc.held, locked |-> TRUE, total |-> acc.total]

\* body of the fold closure: match tx.kind
FoldStep(acc, tx, amount) ==
    CASE tx.kind = "Dispute" -> Dispute(acc, amount)
      [] tx.kind = "Resolve" -> Resolve(acc, amount)
      [] tx.kind = "Chargeback" -> Chargeback(acc, amount)

Account(c, t, a, h, l) ==
    [client |-> c, available |-> a, held |-> h, total |-> t, locked |-> l]

NoResult == [tag |-> "None", client |-> 0, accounts |-> <<>>]
Ok(accs) == [tag |-> "Ok", client |-> 0, accounts |-> accs]
NoAvailableFundsToWithdraw(c) == [tag |-> "Err", client |-> c, accounts |-> <<>>]

\* ---- the state machine ----
Init ==
    /\ txns \in Inputs
    /\ pc = "group"
    /\ client_txns = EmptyMap
    /\ pending = {}
    /\ client = 0
    /\ txset = {}
    /\ tx_amounts = EmptyMap
    /\ total = 0
    /\ available = 0
    /\ held = 0
    /\ locked = FALSE
    /\ rest = {}
    /\ hist = <<>>
    /\ accounts = <<>>
    /\ result = NoResult

\* a grouping that hands every client the whole input
GroupByClientShared ==
    /\ pc = "group"
    /\ client_txns' = [c \in {GroupKey(tx) : tx \in Range(txns)} |-> txns]
    /\ pending' = {GroupKey(tx) : tx \in Range(txns)}
    /\ pc' = "next"
    /\ UNCHANGED <<txns, client, txset, tx_amounts, total, available, held,
                   locked, rest, hist, accounts, result>>

\* txns.into_iter().into_group_map_by(|tx| tx.client)
GroupByClient ==
    /\ pc = "group"
    /\ client_txns' = [c \in {GroupKey(tx) : tx \in Range(txns)} |->
                          SelectSeq(txns, LAMBDA tx : GroupKey(tx) = c)]
    /\ pending' = {GroupKey(tx) : tx \in Range(txns)}
    /\ pc' = "next"
    /\ UNCHANGED <<txns, client, txset, tx_amounts, total, available, held,
                   locked, rest, hist, accounts, result>>

\* the map closure is called on the next (client, txns) entry: the Vec becomes
\* a HashSet, and process_client_transactions builds tx_amounts and total
ProcessClient ==
    /\ pc = "next"
    /\ \E c \in pending :
         LET set == Range(client_txns[c])
         IN \E m \in TxAmountMaps(set) :
              /\ client' = c
              /\ txset' = set
              /\ tx_amounts' = m
              /\ total' = SumValues(m)
    /\ pc' = "check"
    /\ available' = 0
    /\ held' = 0
    /\ locked' = FALSE
    /\ rest' = {}
    /\ hist' = <<>>
    /\ UNCHANGED <<txns, client_txns, pending, accounts, result>>

\* if total < Decimal::ZERO { return Err(..) }: collect() stops at the first Err
NoFunds ==
    /\ pc = "check"
    /\ InsufficientFunds(total)
    /\ result' = NoAvailableFundsToWithdraw(client)
    /\ pc' = "done"
    /\ UNCHANGED <<txns, client_txns, pending, client, txset, tx_amounts, total,
                   available, held, locked, rest, hist, accounts>>

\* the fold starts from (total, Decimal::ZERO, false) over the filtered records
BeginReplay ==
    /\ pc = "check"
    /\ ~InsufficientFunds(total)
    /\ LET acc == InitialAccumulator(total)
       IN /\ available' = acc.avail
          /\ held' = acc.held
          /\ locked' = acc.locked
          /\ hist' = <<[tx |-> <<>>, avail |-> acc.avail, held |-> acc.held,
                        locked |-> acc.locked, total |-> acc.total]>>
    /\ rest' = {tx \in txset : IsReplayed(tx)}
    /\ pc' = "replay"
    /\ UNCHANGED <<txns, client_txns, pending, client, txset, tx_amounts, total,
                   accounts, result>>

\* one call of the fold closure, on the record the set iterator yields next
ReplayStep ==
    /\ pc = "replay"
    /\ \E tx \in rest :
         LET acc == FoldStep([avail |-> available, held |-> held, locked |-> locked,
                              total |-> total],
                             tx, AmountOf(tx_amounts, tx.transaction_id))
         IN /\ available' = acc.avail
            /\ held' = acc.held
            /\ locked' = acc.locked
            /\ total' = acc.total
            /\ rest' = rest \ {tx}
            /\ hist' = Append(hist, [tx |-> <<tx>>, avail |-> acc.avail,
                                     held |-> acc.held, locked |-> acc.locked,
                                     total |-> acc.total])
    /\ UNCHANGED <<txns, pc, client_txns, pending, client, txset, tx_amounts,
                   accounts, result>>

\* Ok(Account { client, total, available, held, locked })
FinishClient ==
    /\ pc = "replay"
    /\ rest = {}
    /\ accounts' = Append(accounts, Account(client, total, available, held, locked))
    /\ pending' = pending \ {client}
    /\ pc' = "next"
    /\ UNCHANGED <<txns, client_txns, client, txset, tx_amounts, total, available,
                   held, locked, rest, hist, result>>

\* the HashMap iterator is exhausted: collect() returns Ok(Vec<Account>)
Collect ==
    /\ pc = "next"
    /\ pending = {}
    /\ result' = Ok(accounts)
    /\ pc' = "done"
    /\ UNCHANGED <<txns, client_txns, pending, client, txset, tx_amounts, total,
                   available, held, locked, rest, hist, accounts>>

Next ==
    \/ GroupByClient
    \/ ProcessClient
    \/ NoFunds
    \/ BeginReplay
    \/ ReplayStep
    \/ FinishClient
    \/ Collect

Spec == Init /\ [][Next]_vars

TypeOK ==
    /\ pc \in {"group", "next", "check", "replay", "done"}
    /\ result.tag \in {"None", "Ok", "Err"}
    /\ pending \subseteq Clients

\* ---- vocabulary of the properties ----
InputClients == {txns[i].client : i \in DOMAIN txns}

RECURSIVE NetSumUpTo(_, _)
\* deposits minus withdrawals of client c among the first n input records
NetSumUpTo(c, n) ==
    IF n = 0 THEN 0
    ELSE NetSumUpTo(c, n - 1) +
         (IF txns[n].client = c /\ txns[n].kind = "Deposit" THEN txns[n].amount
          ELSE IF txns[n].client = c /\ txns[n].kind = "Withdrawal" THEN 0 - txns[n].amount
          ELSE 0)

NetSum(c) == NetSumUpTo(c, Len(txns))

\* the Deposit / Withdrawal records of client c that carry transaction id id
Referenced(c, id) ==
    {tx \in Range(txns) : tx.client = c /\ tx.transaction_id = id /\ IsMonetary(tx)}

\* no two monetary records of client c (at different places) share an id
DistinctMonetaryIds(c) ==
    \A i, j \in DOMAIN txns :
        (i # j /\ txns[i].client = c /\ txns[j].client = c
         /\ IsMonetary(txns[i]) /\ IsMonetary(txns[j]))
        => txns[i].transaction_id # txns[j].transaction_id

\* the Dispute / Resolve / Chargeback records of client c
References(c) == {tx \in Range(txns) : tx.client = c /\ ~IsMonetary(tx)}

\* the record the i-th entry of hist was produced by (i >= 2)
Applied(i) == hist[i].tx[1]

Steps == 2..Len(hist)

SameFunds(a, b) == a.avail = b.avail /\ a.held = b.held /\ a.total = b.total

\* C1: every returned Account has total = available + held, and the running
\* triple satisfies it after each replayed Dispute, Resolve or Chargeback.
C1_TotalIsAvailablePlusHeld ==
    /\ \A i \in Steps : hist[i].total = hist[i].avail + hist[i].held
    /\ \A i \in DOMAIN result.accounts :
         result.accounts[i].total = result.accounts[i].available + result.accounts[i].held

\* C2 (as stated): every client whose deposits minus withdrawals is negative
\* is the client named by the error that from_transactions returns.
C2_EveryNegativeClientIsNamed ==
    pc = "done" =>
      \A c \in InputClients :
          NetSum(c) < 0 => result = NoAvailableFundsToWithdraw(c)

\* C2 (amended): when the monetary ids of every client are pairwise distinct
\* and some client has a negative net sum, the call returns the error for one
\* such client (hence for c when c is the only one) and no account at all.
C2_SomeNegativeClientIsNamed ==
    (pc = "done" /\ \A c \in InputClients : DistinctMonetaryIds(c)) =>
      \A c \in InputClients :
          NetSum(c) < 0 =>
              /\ result.tag = "Err"
              /\ NetSum(result.client) < 0
              /\ result.client \in InputClients
              /\ result.accounts = <<>>
              /\ (\A d \in InputClients \ {c} : NetSum(d) >= 0) => result.client = c

\* a well-formed client was processed first and its account is discarded
C2_Witness ==
    /\ pc = "done"
    /\ result.tag = "Err"
    /\ \A c \in InputClients : DistinctMonetaryIds(c)
    /\ Len(accounts) = 1
    /\ NetSum(accounts[1].client) > 0
    /\ result.accounts = <<>>

\* C3 (as stated): a replayed record whose id matches no monetary record of
\* the client leaves available, held, total and locked unchanged.
C3_UnknownReferenceChangesNothing ==
    \A i \in Steps :
        Referenced(client, Applied(i).transaction_id) = {} =>
            SameFunds(hist[i], hist[i - 1]) /\ hist[i].locked = hist[i - 1].locked

\* C3 (amended): such a record leaves available, held and total unchanged;
\* a Dispute or Resolve also leaves locked unchanged, a Chargeback sets it.
C3_UnknownReferenceMovesNoFunds ==
    \A i \in Steps :
        Referenced(client, Applied(i).transaction_id) = {} =>
            /\ SameFunds(hist[i], hist[i - 1])
            /\ Applied(i).kind \in {"Dispute", "Resolve"} =>
                   hist[i].locked = hist[i - 1].locked
            /\ Applied(i).kind = "Chargeback" => hist[i].locked

\* an unknown Dispute and an unknown Resolve were replayed on a funded account
C3_Witness ==
    /\ pc = "replay"
    /\ total > 0
    /\ \E i, j \in Steps :
         /\ Applied(i).kind = "Dispute"
         /\ Applied(j).kind = "Resolve"
         /\ Referenced(client, Applied(i).transaction_id) = {}
         /\ Referenced(client, Applied(j).transaction_id) = {}

\* C4: a Chargeback sets locked whatever it references and moves no funds;
\* a returned account is locked iff its client has a Chargeback record.
C4_ChargebackLocks ==
    /\ \A i \in Steps :
         Applied(i).kind = "Chargeback" =>
             hist[i].locked /\ SameFunds(hist[i], hist[i - 1])
    /\ \A i \in DOMAIN accounts :
         accounts[i].locked <=>
             (\E tx \in References(accounts[i].client) : tx.kind = "Chargeback")
    /\ result.tag = "Ok" => result.accounts = accounts

\* a returned account is locked by a Chargeback that references nothing,
\* while another one with held funds is returned unlocked
C4_Witness ==
    /\ result.tag = "Ok"
    /\ \E i \in DOMAIN result.accounts :
         /\ result.accounts[i].locked
         /\ \A tx \in References(result.accounts[i].client) :
              tx.kind = "Chargeback" => Referenced(tx.client, tx.transaction_id) = {}
    /\ \E i \in DOMAIN result.accounts :
         ~result.accounts[i].locked /\ result.accounts[i].held > 0

\* C5: a Dispute followed by a Resolve of the same known transaction restores
\* available and held, and total is the same before, between and after.
C5_DisputeThenResolveRestores ==
    \A i \in Steps :
        ( /\ i + 1 <= Len(hist)
          /\ Applied(i).kind = "Dispute"
          /\ Applied(i + 1).kind = "Resolve"
          /\ Applied(i + 1).transaction_id = Applied(i).transaction_id
          /\ Referenced(client, Applied(i).transaction_id) # {} )
        => /\ hist[i + 1].avail = hist[i - 1].avail
           /\ hist[i + 1].held = hist[i - 1].held
           /\ hist[i].total = hist[i - 1].total
           /\ hist[i + 1].total = hist[i - 1].total

\* C6: a Dispute of a withdrawal of amount w adds w to held and to total and
\* leaves available as it was.
C6_WithdrawalDisputeKeepsAvailable ==
    \A i \in Steps :
        \A tx \in Referenced(client, Applied(i).transaction_id) :
            ( /\ Applied(i).kind = "Dispute"
              /\ Referenced(client, Applied(i).transaction_id) = {tx}
              /\ tx.kind = "Withdrawal" )
            => /\ hist[i].held = hist[i - 1].held + tx.amount
               /\ hist[i].total = hist[i - 1].total + tx.amount
               /\ hist[i].avail = hist[i - 1].avail

\* the effect of one Dispute of a deposit of amount a on the accumulators
DepositDisputeStep ==
    \A i \in Steps :
        \A tx \in Referenced(client, Applied(i).transaction_id) :
            ( /\ Applied(i).kind = "Dispute"
              /\ Referenced(client, Applied(i).transaction_id) = {tx}
              /\ tx.kind = "Deposit" )
            => /\ hist[i].avail = hist[i - 1].avail - tx.amount
               /\ hist[i].held = hist[i - 1].held + tx.amount
               /\ hist[i].total = hist[i - 1].total
               /\ hist[i].locked = hist[i - 1].locked

\* the Dispute and Resolve records of client c
FundReferences(c) == {tx \in References(c) : tx.kind # "Chargeback"}

\* account acc is the one of a client whose only Dispute / Resolve record is
\* a Dispute of the deposit dep
OneOpenDispute(acc, dep) ==
    /\ dep.client = acc.client
    /\ dep.kind = "Deposit"
    /\ \E d \in FundReferences(acc.client) :
         /\ FundReferences(acc.client) = {d}
         /\ d.kind = "Dispute"
         /\ d.transaction_id = dep.transaction_id

OneOpenDisputeAccount(acc, dep) ==
    /\ acc.total = NetSum(acc.client)
    /\ acc.held = dep.amount
    /\ acc.available = acc.total - dep.amount

\* C7 (as stated): a Dispute of a deposit of amount a moves a from available
\* to held; a client with one open dispute on a deposit of amount a gets
\* total = net sum of its monetary records, held = a, available = total - a.
C7_DepositDispute ==
    /\ DepositDisputeStep
    /\ \A i \in DOMAIN accounts :
         \A dep \in Range(txns) :
             OneOpenDispute(accounts[i], dep) => OneOpenDisputeAccount(accounts[i], dep)

\* C7 (amended): the same, for a client whose monetary records have pairwise
\* distinct transaction ids.
C7_DepositDisputeDistinctIds ==
    /\ DepositDisputeStep
    /\ \A i \in DOMAIN accounts :
         \A dep \in Range(txns) :
             (OneOpenDispute(accounts[i], dep) /\ DistinctMonetaryIds(accounts[i].client))
             => OneOpenDisputeAccount(accounts[i], dep)

\* a client with a deposit, a withdrawal and an open dispute of the deposit
C7_Witness ==
    /\ result.tag = "Ok"
    /\ \E i \in DOMAIN result.accounts :
         /\ DistinctMonetaryIds(result.accounts[i].client)
         /\ \E dep \in Range(txns) : OneOpenDispute(result.accounts[i], dep)
         /\ \E tx \in Range(txns) :
              tx.client = result.accounts[i].client /\ tx.kind = "Withdrawal"
         /\ result.accounts[i].held > 0

\* C8: on success the list holds exactly one Account per distinct client of
\* the input, also for clients that have only Dispute/Resolve/Chargeback.
C8_OneAccountPerClient ==
    result.tag = "Ok" =>
        /\ {result.accounts[i].client : i \in DOMAIN result.accounts} = InputClients
        /\ Len(result.accounts) = Cardinality(InputClients)

\* two accounts are returned, one for a client without any monetary record
C8_Witness ==
    /\ result.tag = "Ok"
    /\ Len(result.accounts) = 2
    /\ \E c \in InputClients :
         \A tx \in Range(txns) : tx.client = c => ~IsMonetary(tx)

\* C9: a client without Dispute/Resolve/Chargeback and with pairwise distinct
\* monetary ids gets total = deposits - withdrawals, available = total,
\* held = 0, locked = false, in whatever order its records come; only the
\* final sum is checked, so such an input with no negative sum succeeds.
C9_PlainClient ==
    /\ \A i \in DOMAIN accounts :
         (References(accounts[i].client) = {} /\ DistinctMonetaryIds(accounts[i].client))
         => accounts[i] = Account(accounts[i].client, NetSum(accounts[i].client),
                                  NetSum(accounts[i].client), 0, FALSE)
    /\ (pc = "done" /\ \A c \in InputClients :
            References(c) = {} /\ DistinctMonetaryIds(c) /\ NetSum(c) >= 0)
       => result = Ok(accounts)

\* a withdrawal comes first in the input and the deposit that funds it later
C9_Witness ==
    /\ result.tag = "Ok"
    /\ Len(txns) = 2
    /\ txns[1].kind = "Withdrawal"
    /\ txns[2].kind = "Deposit"
    /\ txns[2].client = txns[1].client
    /\ DistinctMonetaryIds(txns[1].client)
    /\ Len(result.accounts) = 1
    /\ result.accounts[1].total = 1
    /\ result.accounts[1].available = 1

\* C10: an error is returned exactly when the per-id total of the client being
\* processed is negative, and it names that client; no replay step fails,
\* even one that takes available or held below zero.
C10_ErrorIffNegativeTotal ==
    [][ /\ (pc = "check" /\ SumValues(tx_amounts) < 0)
             => result' = NoAvailableFundsToWithdraw(client)
        /\ (pc = "check" /\ SumValues(tx_amounts) >= 0) => result' = NoResult
        /\ pc = "replay" => (result' = NoResult /\ pc' \in {"replay", "next"})
        /\ result'.tag = "Err" => (pc = "check" \/ result' = result)
        /\ result'.tag = "Ok" => pending = {} ]_vars

\* a replay took available below zero and the call still succeeded
C10_Witness ==
    /\ result.tag = "Ok"
    /\ \E i \in DOMAIN result.accounts : result.accounts[i].available < 0

\* the places of record tx in the input
Positions(tx) == {i \in DOMAIN txns : txns[i] = tx}

\* every monetary record of the client with the id of tx comes later in the
\* input than tx, and there is one
ReferencedOnlyLater(tx) ==
    /\ Referenced(tx.client, tx.transaction_id) # {}
    /\ \A mon \in Referenced(tx.client, tx.transaction_id) :
         \A p \in Positions(tx), q \in Positions(mon) : p < q

\* the i-th entry of hist is the effect of its record on the monetary record mon
TakesEffect(i, mon) ==
    LET a == mon.amount
        before == hist[i - 1]
        after == hist[i]
    IN CASE Applied(i).kind = "Dispute" /\ mon.kind = "Deposit" ->
              /\ after.avail = before.avail - a
              /\ after.held = before.held + a
              /\ after.total = before.total
         [] Applied(i).kind = "Dispute" /\ mon.kind = "Withdrawal" ->
              /\ after.avail = before.avail + a
              /\ after.held = before.held + a
              /\ after.total = before.total + a
         [] Applied(i).kind = "Resolve" /\ mon.kind = "Deposit" ->
              /\ after.avail = before.avail + a
              /\ after.held = before.held - a
              /\ after.total = before.total
         [] Applied(i).kind = "Resolve" /\ mon.kind = "Withdrawal" ->
              /\ after.avail = before.avail
              /\ after.held = before.held - a
              /\ after.total = before.total
         [] Applied(i).kind = "Chargeback" ->
              SameFunds(after, before) /\ after.locked

FirstPosition(tx) == CHOOSE p \in Positions(tx) : \A q \in Positions(tx) : p <= q

Kept(m, id) == IF id \in DOMAIN m THEN m[id] ELSE 0

RECURSIVE SumKept(_, _)
\* the sum of Kept over the records of the set S, each record counted once
SumKept(S, m) ==
    IF S = {} THEN 0
    ELSE LET x == CHOOSE y \in S : TRUE
         IN Kept(m, x.transaction_id) + SumKept(S \ {x}, m)

\* the account that a set refs of Dispute/Resolve/Chargeback records yields
\* from the initial total t0 and the per-id map m, every record counted once
AccountOfSet(c, t0, m, refs) ==
    LET disp == {x \in refs : x.kind = "Dispute"}
        res == {x \in refs : x.kind = "Resolve"}
        dispNeg == {x \in disp : Kept(m, x.transaction_id) < 0}
        resNeg == {x \in res : Kept(m, x.transaction_id) < 0}
    IN Account(c,
               t0 - SumKept(dispNeg, m),
               t0 - SumKept(disp, m) + SumKept(res \ resNeg, m),
               SumKept(disp \ dispNeg, m) - SumKept(dispNeg, m)
                   - SumKept(res \ resNeg, m) + SumKept(resNeg, m),
               \E x \in refs : x.kind = "Chargeback")

\* the replay of the current client is complete
Replayed == hist # <<>> /\ rest = {}

\* C13: identical records collapse into one event: the account of a client is
\* the one its set of distinct records yields, however often a record is
\* repeated in the input; two Disputes of a deposit a hold a once.
C13_DuplicatesCollapse ==
    /\ Replayed =>
         Account(client, total, available, held, locked)
             = AccountOfSet(client, hist[1].total, tx_amounts, References(client))
    /\ (Replayed /\ pc # "replay") =>
         accounts[Len(accounts)] = Account(client, total, available, held, locked)
    /\ \A i, j \in Steps : i # j => Applied(i) # Applied(j)
    /\ \A k \in DOMAIN accounts :
         \A dep \in Range(txns) :
             ( /\ OneOpenDispute(accounts[k], dep)
               /\ Referenced(dep.client, dep.transaction_id) = {dep} )
             => /\ accounts[k].held = dep.amount
                /\ accounts[k].available = accounts[k].total - dep.amount

\* the input holds the same Dispute twice and the same Deposit twice; the
\* account holds the deposit once
C13_Witness ==
    /\ result.tag = "Ok"
    /\ Len(txns) = 4
    /\ \E d \in Range(txns) : d.kind = "Dispute" /\ Cardinality(Positions(d)) = 2
    /\ \E dep \in Range(txns) :
         /\ dep.kind = "Deposit"
         /\ Cardinality(Positions(dep)) = 2
         /\ result.accounts = <<Account(dep.client, dep.amount, 0, dep.amount, FALSE)>>

\* the records of client c in the input
Own(c) == {tx \in Range(txns) : tx.client = c}

\* record tx cites an id that only other clients have a monetary record for
CitesOtherClient(tx) ==
    /\ Referenced(tx.client, tx.transaction_id) = {}
    /\ \E b \in InputClients \ {tx.client} : Referenced(b, tx.transaction_id) # {}

\* C14: a client is processed from its own records only: a reference that
\* cites an id only another client has moves no funds of either client, and
\* the map, the replay and the account of a client come from its own records.
C14_ClientsIsolated ==
    /\ pc \in {"check", "replay"} =>
         /\ txset = Own(client)
         /\ DOMAIN tx_amounts = {tx.transaction_id : tx \in {x \in Own(client) : IsMonetary(x)}}
         /\ \A id \in DOMAIN tx_amounts :
              \E tx \in Referenced(client, id) :
                  tx_amounts[id] = IF tx.kind = "Deposit" THEN tx.amount ELSE 0 - tx.amount
    /\ \A i \in Steps :
         /\ Applied(i) \in Own(client)
         /\ CitesOtherClient(Applied(i)) => SameFunds(hist[i], hist[i - 1])
    /\ \A k \in DOMAIN accounts :
         LET b == accounts[k].client
         IN (DistinctMonetaryIds(b) /\ FundReferences(b) = {}) =>
                /\ accounts[k].total = NetSum(b)
                /\ accounts[k].available = NetSum(b)
                /\ accounts[k].held = 0

\* client a disputes an id that only client b has deposited: a's account is
\* empty and b's is untouched
C14_Witness ==
    /\ result.tag = "Ok"
    /\ Len(result.accounts) = 2
    /\ \E d \in Range(txns) : d.kind = "Dispute" /\ CitesOtherClient(d)
    /\ \E k \in DOMAIN result.accounts :
         /\ References(result.accounts[k].client) # {}
         /\ result.accounts[k].total = 0
         /\ result.accounts[k].held = 0
    /\ \E k \in DOMAIN result.accounts :
         /\ References(result.accounts[k].client) = {}
         /\ result.accounts[k].available = 2
         /\ result.accounts[k].held = 0

\* the Dispute / Resolve records of client c are exactly those of kinds
\* kinds, all citing transaction id id
FundReferencesAre(c, kinds, id) ==
    /\ {x.kind : x \in FundReferences(c)} = kinds
    /\ \A x \in FundReferences(c) : x.transaction_id = id

\* what C15 says of the account acc of a client with the withdrawal wd
WithdrawalDisputeAccount(acc, wd) ==
    LET n == NetSum(acc.client)
        w == wd.amount
    IN /\ FundReferencesAre(acc.client, {"Dispute"}, wd.transaction_id) =>
              acc.total = n + w /\ acc.available = n + w /\ acc.held = w
       /\ FundReferencesAre(acc.client, {"Dispute", "Resolve"}, wd.transaction_id) =>
              acc.total = n + w /\ acc.available = n + w /\ acc.held = 0

InputAmounts(c) ==
    [id \in {tx.transaction_id : tx \in {x \in Own(c) : IsMonetary(x)}} |->
        LET tx == CHOOSE x \in Referenced(c, id) : TRUE
        IN IF tx.kind = "Deposit" THEN tx.amount ELSE 0 - tx.amount]

\* the account of client c as a function of the set of its records
ExpectedAccount(c) == AccountOfSet(c, NetSum(c), InputAmounts(c), References(c))

AllDistinctMonetaryIds == \A c \in InputClients : DistinctMonetaryIds(c)

\* C16: with pairwise distinct monetary ids per client, the accounts are a
\* function of the set of input records: neither the order of the input nor
\* the order of the replay changes them, nor whether the call succeeds.
C16_OrderIndependent ==
    AllDistinctMonetaryIds =>
        /\ \A k \in DOMAIN accounts : accounts[k] = ExpectedAccount(accounts[k].client)
        /\ pc = "done" =>
             /\ result.tag = "Ok" <=> \A c \in InputClients : NetSum(c) >= 0
             /\ result.tag = "Ok" =>
                  Range(result.accounts) = {ExpectedAccount(c) : c \in InputClients}

\* a Dispute and a Resolve that move funds were replayed against the order
\* of the input, which lists them before the deposit they cite
C16_Witness ==
    /\ result.tag = "Ok"
    /\ AllDistinctMonetaryIds
    /\ Len(hist) = 3
    /\ FirstPosition(Applied(3)) < FirstPosition(Applied(2))
    /\ Applied(2).kind = "Resolve"
    /\ Applied(3).kind = "Dispute"
    /\ ReferencedOnlyLater(Applied(3))
    /\ hist[2].held < 0
    /\ hist[3].held > 0

\* the signed amounts of the monetary records of client c with id id
SignedAmountsOf(c, id) ==
    {IF tx.kind = "Deposit" THEN tx.amount ELSE 0 - tx.amount : tx \in Referenced(c, id)}

\* one monetary record of client c per transaction id
OnePerId(c) ==
    {CHOOSE x \in Referenced(c, tx.transaction_id) : TRUE :
        tx \in {y \in Own(c) : IsMonetary(y)}}

\* C17: of the monetary records of a client that share an id the map keeps
\* one: total is the sum of one signed amount per distinct id, and a Dispute
\* or Resolve of the id moves the kept amount.
C17_OneRecordPerId ==
    /\ pc \in {"check", "replay"} =>
         /\ \A tx \in {y \in Own(client) : IsMonetary(y)} :
              /\ tx.transaction_id \in DOMAIN tx_amounts
              /\ tx_amounts[tx.transaction_id] \in SignedAmountsOf(client, tx.transaction_id)
         /\ (IF pc = "check" THEN total ELSE hist[1].total)
                = SumKept(OnePerId(client), tx_amounts)
    /\ \A i \in Steps :
         Applied(i).transaction_id \in DOMAIN tx_amounts =>
             \E mon \in Referenced(client, Applied(i).transaction_id) :
                 /\ tx_amounts[Applied(i).transaction_id]
                        = (IF mon.kind = "Deposit" THEN mon.amount ELSE 0 - mon.amount)
                 /\ TakesEffect(i, mon)

\* Deposit 1 and Withdrawal 2 share an id and the map keeps the deposit, the
\* record listed first: total is 1, not -1, and the Dispute holds 1
C17_Witness ==
    /\ pc = "replay"
    /\ Len(txns) = 3
    /\ txns[1].kind = "Deposit" /\ txns[1].amount = 1
    /\ txns[2].kind = "Withdrawal" /\ txns[2].amount = 2
    /\ txns[2].transaction_id = txns[1].transaction_id
    /\ txns[3].kind = "Dispute"
    /\ txns[3].transaction_id = txns[1].transaction_id
    /\ NetSum(client) = 0 - 1
    /\ Len(hist) = 2
    /\ hist[1].total = 1
    /\ hist[2].held = 1

\* C18: a Resolve of a known deposit a adds a to available and takes a from
\* held whether or not a Dispute of the id is present or was replayed, so a
\* client with the Resolve alone ends with held = -a, available = total + a;
\* a Dispute of a deposit is applied also when available goes negative.
C18_NoGuardOnDisputeState ==
    /\ \A i \in Steps :
         \A dep \in Referenced(client, Applied(i).transaction_id) :
             (Referenced(client, Applied(i).transaction_id) = {dep} /\ dep.kind = "Deposit")
             => /\ Applied(i).kind = "Resolve" =>
                    /\ hist[i].avail = hist[i - 1].avail + dep.amount
                    /\ hist[i].held = hist[i - 1].held - dep.amount
                    /\ hist[i].total = hist[i - 1].total
                /\ Applied(i).kind = "Dispute" =>
                    /\ hist[i].avail = hist[i - 1].avail - dep.amount
                    /\ hist[i].held = hist[i - 1].held + dep.amount
    /\ \A k \in DOMAIN accounts :
         \A dep \in Own(accounts[k].client) :
             ( /\ dep.kind = "Deposit"
               /\ Referenced(dep.client, dep.transaction_id) = {dep}
               /\ FundReferencesAre(dep.client, {"Resolve"}, dep.transaction_id) )
             => /\ accounts[k].held = 0 - dep.amount
                /\ accounts[k].available = accounts[k].total + dep.amount

\* a deposit of 2 resolved without any Dispute: held -2, available 4
C18_Witness ==
    /\ result.tag = "Ok"
    /\ \A tx \in Range(txns) : tx.kind # "Dispute"
    /\ \E dep \in Range(txns) :
         /\ dep.kind = "Deposit"
         /\ FundReferencesAre(dep.client, {"Resolve"}, dep.transaction_id)
         /\ result.accounts = <<Account(dep.client, 2, 4, 0 - 2, FALSE)>>

====
